---- MODULE Spec2Model ----
(***************************************************************************)
(* Model of the three command-line tools of naming-things-is-hard:         *)
(*   os-cherry-pop.py      list_commits (log parser) and cherry_pop        *)
(*   os-downstream-tag.py  the downstream tag computation and push         *)
(*   os-upstream-sync.py   the upstream merge run                          *)
(* Each tool has its own specification (SpecCherry, SpecParse, SpecTag,    *)
(* SpecSync); the variables of the other tools stay at their initial       *)
(* value.  Python strings are sequences of one-character strings, so that  *)
(* startswith, split, slicing, int() and str.format are computed.          *)
(***************************************************************************)
EXTENDS Integers, Sequences, FiniteSets, TLC

VARIABLES
    \* os-cherry-pop.py, cherry_pop
    candidates, new_branch_commits, later_branch_commits,
    cherries, report, printed, cidx, cpc,
    \* os-cherry-pop.py, list_commits
    lines, li, sha1, title, change_id, bot, commits, ppc,
    \* os-downstream-tag.py, main and the two repositories it acts on
    localTags, remoteTags, downstreamHead, upstream_tag, new_tag,
    tpc, lastRun, created,
    \* os-upstream-sync.py, main and the repositories it acts on
    upTracking, upRemote, downTracking, downRemote, dirty, cont,
    uncommitted, upstream_ref, downstream_ref, merged_ref, spc, ops, exitCode

cherryVars == <<candidates, new_branch_commits, later_branch_commits,
                cherries, report, printed, cidx, cpc>>
parseVars == <<lines, li, sha1, title, change_id, bot, commits, ppc>>
tagVars == <<localTags, remoteTags, downstreamHead, upstream_tag, new_tag,
             tpc, lastRun, created>>
syncVars == <<upTracking, upRemote, downTracking, downRemote, dirty, cont,
              uncommitted, upstream_ref, downstream_ref, merged_ref, spc, ops,
              exitCode>>
vars == <<cherryVars, parseVars, tagVars, syncVars>>

(***************************************************************************)
(* Python values                                                           *)
(***************************************************************************)
\* Python's None: no character sequence equals it (its element is not a
\* single character).
None == <<"None">>

\* Python truthiness of a str-or-None value: None and "" are falsy.
Falsy(x) == x = None \/ x = <<>>

\* s.startswith(prefix)
StartsWith(s, prefix) ==
    /\ Len(s) >= Len(prefix)
    /\ SubSeq(s, 1, Len(prefix)) = prefix

\* s[n:]
DropFirst(s, n) == SubSeq(s, n + 1, Len(s))

\* The whitespace characters the model's texts use.
IsSpace(c) == c = " "

RECURSIVE SplitFrom(_, _, _, _)
\* s.split(): the maximal runs of non-whitespace characters, in order.
SplitFrom(s, i, cur, acc) ==
    IF i > Len(s)
    THEN IF cur = <<>> THEN acc ELSE Append(acc, cur)
    ELSE IF IsSpace(s[i])
         THEN SplitFrom(s, i + 1, <<>>, IF cur = <<>> THEN acc ELSE Append(acc, cur))
         ELSE SplitFrom(s, i + 1, Append(cur, s[i]), acc)

Split(s) == SplitFrom(s, 1, <<>>, <<>>)

\* reversed(seq)
Reversed(s) == [i \in 1..Len(s) |-> s[Len(s) + 1 - i]]

(***************************************************************************)
(* os-cherry-pop.py: cherry_pop                                            *)
(***************************************************************************)
\* Bounds of the cherry_pop inputs.
MaxCand == 2
MaxNew == 1
MaxLog == 2

I1 == <<"I", "1">>
I2 == <<"I", "2">>

Commit(s, t, c, b) == [sha1 |-> s, title |-> t, change_id |-> c, bot |-> b]

\* The i-th downstream patch on the previous release branch.  git log lists
\* every commit once, so the sha1s of one list are pairwise different.
CandSha(i) == <<"d", ToString(i)>>

CandidateAt(i) ==
    { Commit(CandSha(i), <<"p">>, c, b) : c \in {None, I1, I2}, b \in BOOLEAN }

RECURSIVE CandidateLists(_)
CandidateLists(n) ==
    IF n = 0 THEN {<<>>}
    ELSE { Append(s, c) : s \in CandidateLists(n - 1), c \in CandidateAt(n) }

\* Upstream commits that are not in the history of the previous downstream
\* branch: log_difference(ref, previous_ref) lists `previous_ref..ref`, so
\* none of them is a candidate.
UpstreamCommits ==
    { Commit(<<"u", "1">>, <<"x">>, I1, FALSE),
      Commit(<<"u", "2">>, <<"y">>, I1, FALSE),
      Commit(<<"u", "3">>, <<"z">>, I2, FALSE) }

\* The lists of at most n pairwise different upstream commits.
LogsUpTo(n) ==
    { s \in UNION { [1..k -> UpstreamCommits] : k \in 0..n } :
        \A i, j \in 1..Len(s) : i # j => s[i].sha1 # s[j].sha1 }

\* The later upstream branches, oldest first; main always ends with master.
LaterBranches == << <<"s", "/", "y">>, <<"m">> >>

\* What find_commit returns when its loop ends without a return (Python's
\* None); every commit of a log has a sha1, so no commit equals it.
NoCommit == [sha1 |-> None, title |-> None, change_id |-> None, bot |-> FALSE]

RECURSIVE find_commit_from(_, _, _)
find_commit_from(commits_, commit, i) ==
    IF i > Len(commits_) THEN NoCommit
    ELSE IF commits_[i].change_id = commit.change_id THEN commits_[i]
         ELSE find_commit_from(commits_, commit, i + 1)

\* A mutant of find_commit: matches on the sha1 instead of the change ID.
find_commit_by_sha(commits_, commit) ==
    IF \E i \in 1..Len(commits_) : commits_[i].sha1 = commit.sha1
    THEN commits_[CHOOSE i \in 1..Len(commits_) : commits_[i].sha1 = commit.sha1]
    ELSE NoCommit

\* find_commit: the first commit of the list with the commit's change ID,
\* None when the loop ends without a return.
find_commit(commits_, commit) == find_commit_from(commits_, commit, 1)

RECURSIVE later_options(_, _, _, _, _)
\* The loop over later_branch_commits: one option per branch that holds the
\* change, until a branch yields the commit the previous option holds.
later_options(later, candidate, i, last_sha1, options) ==
    IF i > Len(later) THEN options
    ELSE LET later_commit == find_commit(later[i].commits, candidate)
         IN IF later_commit # NoCommit
            THEN IF later_commit.sha1 = last_sha1
                 THEN options
                 ELSE later_options(later, candidate, i + 1, later_commit.sha1,
                          Append(options, [branch |-> later[i].branch,
                                           commit |-> later_commit]))
            ELSE later_options(later, candidate, i + 1, last_sha1, options)

\* A mutant of chosen_option: the last option instead of the first.
last_option(options) == options[Len(options)].commit

\* options[0]["commit"]
chosen_option(options) == options[1].commit

\* A mutant of decide: the bot test comes after the change ID test.
decide_bot_late(candidate, new_commits, later) ==
    IF Falsy(candidate.change_id)
    THEN [msg |-> "KEEP: No change ID", pick |-> <<candidate>>, options |-> <<>>]
    ELSE IF candidate.bot
    THEN [msg |-> "SKIP: created by stackhpc-ci bot", pick |-> <<>>, options |-> <<>>]
    ELSE IF find_commit(new_commits, candidate) # NoCommit
    THEN [msg |-> "SKIP: present", pick |-> <<>>, options |-> <<>>]
    ELSE LET options == later_options(later, candidate, 1, None, <<>>)
         IN IF options # <<>>
            THEN [msg |-> "CHOICE: present on multiple branches",
                  pick |-> <<chosen_option(options)>>, options |-> options]
            ELSE [msg |-> "KEEP: Use original commit", pick |-> <<candidate>>,
                  options |-> <<>>]

\* The body of cherry_pop's loop for one candidate: the line it prints, the
\* cherries it appends (none or one) and the options it lists.
decide(candidate, new_commits, later) ==
    IF candidate.bot
    THEN [msg |-> "SKIP: created by stackhpc-ci bot", pick |-> <<>>, options |-> <<>>]
    ELSE IF Falsy(candidate.change_id)
    THEN [msg |-> "KEEP: No change ID", pick |-> <<candidate>>, options |-> <<>>]
    ELSE IF find_commit(new_commits, candidate) # NoCommit
    THEN [msg |-> "SKIP: present", pick |-> <<>>, options |-> <<>>]
    ELSE LET options == later_options(later, candidate, 1, None, <<>>)
         IN IF options # <<>>
            THEN [msg |-> "CHOICE: present on multiple branches",
                  pick |-> <<chosen_option(options)>>, options |-> options]
            ELSE [msg |-> "KEEP: Use original commit", pick |-> <<candidate>>,
                  options |-> <<>>]

\* The line printed for a cherry: its sha1 and its title.
cherry_line(cherry) == [sha1 |-> cherry.sha1, title |-> cherry.title]

\* A mutant of proposed_lines: the cherries in the order they were selected.
proposed_lines_in_order(cs) == [i \in 1..Len(cs) |-> cherry_line(cs[i])]

\* for cherry in reversed(cherries): print(...)
proposed_lines(cs) == [i \in 1..Len(cs) |-> cherry_line(Reversed(cs)[i])]

CherryIdle ==
    /\ candidates = <<>> /\ new_branch_commits = <<>>
    /\ later_branch_commits = <<>> /\ cherries = <<>> /\ report = <<>>
    /\ printed = <<>> /\ cidx = 0 /\ cpc = "off"

\* The arguments main passes to cherry_pop, and cherries = [].
CherryInit ==
    /\ candidates \in UNION { CandidateLists(n) : n \in 0..MaxCand }
    /\ new_branch_commits \in LogsUpTo(MaxNew)
    /\ \E logs \in [1..Len(LaterBranches) -> LogsUpTo(MaxLog)] :
         later_branch_commits =
             [i \in 1..Len(LaterBranches) |->
                 [branch |-> LaterBranches[i], commits |-> logs[i]]]
    /\ cherries = <<>> /\ report = <<>> /\ printed = <<>>
    /\ cidx = 1 /\ cpc = "loop"

\* One iteration of `for candidate in candidates`.
CherryLoop ==
    /\ cpc = "loop" /\ cidx <= Len(candidates)
    /\ LET d == decide(candidates[cidx], new_branch_commits, later_branch_commits)
       IN /\ report' = Append(report, [msg |-> d.msg, options |-> d.options])
          /\ cherries' = cherries \o d.pick
    /\ cidx' = cidx + 1
    /\ UNCHANGED <<candidates, new_branch_commits, later_branch_commits, printed, cpc>>
    /\ UNCHANGED <<parseVars, tagVars, syncVars>>

\* The loop is over: print "Proposed cherries:" and one line per cherry.
CherryPrint ==
    /\ cpc = "loop" /\ cidx > Len(candidates)
    /\ printed' = proposed_lines(cherries)
    /\ cpc' = "done"
    /\ UNCHANGED <<candidates, new_branch_commits, later_branch_commits,
                   cherries, report, cidx>>
    /\ UNCHANGED <<parseVars, tagVars, syncVars>>

(***************************************************************************)
(* os-cherry-pop.py: list_commits                                          *)
(***************************************************************************)
\* Bound on the number of lines of a git log text.
MaxLines == 4

COMMIT_ID == <<"c", "o", "m", "m", "i", "t", " ">>
AUTHOR == <<"A", "u", "t", "h", "o", "r", ":">>
CHANGE_ID == <<" ", " ", " ", " ", "C", "h", "a", "n", "g", "e", "-", "I", "d", ":", " ", "I">>
TITLE == <<" ", " ", " ", " ">>
STACKHPC_CI == <<"s", "t", "a", "c", "k", "h", "p", "c", "-", "c", "i">>

\* Lines of `git log --no-merges` output: commit and author headers, the
\* message lines (indented by four spaces, blank ones too) and the empty line
\* between header and message.
LogLines ==
    { <<"c", "o", "m", "m", "i", "t", " ", "a">>,
      <<"c", "o", "m", "m", "i", "t", " ", "b">>,
      <<"A", "u", "t", "h", "o", "r", ":", " ", "s", "t", "a", "c", "k", "h", "p", "c", "-", "c", "i", " ", "c">>,
      <<"A", "u", "t", "h", "o", "r", ":", " ", "W", " ", "s", "t", "a", "c", "k", "h", "p", "c", "-", "c", "i">>,
      <<" ", " ", " ", " ", "C", "h", "a", "n", "g", "e", "-", "I", "d", ":", " ", "I", "1">>,
      <<" ", " ", " ", " ", "C", "h", "a", "n", "g", "e", "-", "I", "d", ":", " ", "I", "2">>,
      <<" ", " ", " ", " ", "F", "i", "x">>,
      <<" ", " ", " ", " ", "A", "d", "d">>,
      <<" ", " ", " ", " ">>,
      <<>> }

RawTexts == UNION { [1..k -> LogLines] : k \in 0..MaxLines }

RECURSIVE LStrip(_)
LStrip(s) == IF s # <<>> /\ IsSpace(s[1]) THEN LStrip(Tail(s)) ELSE s

RECURSIVE RStrip(_)
RStrip(s) ==
    IF s # <<>> /\ IsSpace(s[Len(s)]) THEN RStrip(SubSeq(s, 1, Len(s) - 1)) ELSE s

RECURSIVE DropBlankHead(_)
DropBlankHead(ls) ==
    IF ls # <<>> /\ LStrip(ls[1]) = <<>> THEN DropBlankHead(Tail(ls)) ELSE ls

RECURSIVE DropBlankTail(_)
DropBlankTail(ls) ==
    IF ls # <<>> /\ LStrip(ls[Len(ls)]) = <<>>
    THEN DropBlankTail(SubSeq(ls, 1, Len(ls) - 1))
    ELSE ls

\* log_difference(...).splitlines(): the lines of the text after strip(),
\* which removes the white space (line breaks included) at both ends.
StrippedLines(raw) ==
    LET ls == DropBlankTail(DropBlankHead(raw))
    IN [i \in 1..Len(ls) |->
           LET a == IF i = 1 THEN LStrip(ls[i]) ELSE ls[i]
           IN IF i = Len(ls) THEN RStrip(a) ELSE a]

\* The dict list_commits appends for the commit it has been reading.
previous(st) ==
    [sha1 |-> st.sha1, title |-> st.title, change_id |-> st.change_id, bot |-> st.bot]

\* A mutant of on_commit_line: the change ID is not reset.
on_commit_line_keeps_change_id(st, line) ==
    [sha1 |-> Split(line)[2], title |-> None, change_id |-> st.change_id,
     bot |-> FALSE,
     commits |-> IF ~Falsy(st.sha1) THEN Append(st.commits, previous(st))
                 ELSE st.commits]

\* The branch `if line.startswith(COMMIT_ID)`.
on_commit_line(st, line) ==
    [sha1 |-> Split(line)[2], title |-> None, change_id |-> None, bot |-> FALSE,
     commits |-> IF ~Falsy(st.sha1) THEN Append(st.commits, previous(st))
                 ELSE st.commits]

\* The body of `for line in difference.splitlines()`.
parse_line(st, line) ==
    IF StartsWith(line, COMMIT_ID) THEN on_commit_line(st, line)
    ELSE IF StartsWith(line, AUTHOR)
    THEN IF Split(line)[2] = STACKHPC_CI THEN [st EXCEPT !.bot = TRUE] ELSE st
    ELSE IF StartsWith(line, CHANGE_ID)
    THEN [st EXCEPT !.change_id = <<"I">> \o DropFirst(line, Len(CHANGE_ID))]
    ELSE IF StartsWith(line, TITLE) /\ Falsy(st.title)
    THEN [st EXCEPT !.title = DropFirst(line, Len(TITLE))]
    ELSE st

parse_state ==
    [sha1 |-> sha1, title |-> title, change_id |-> change_id, bot |-> bot,
     commits |-> commits]

ParseIdle ==
    /\ lines = <<>> /\ li = 0 /\ sha1 = None /\ title = None
    /\ change_id = None /\ bot = FALSE /\ commits = <<>> /\ ppc = "off"

\* list_commits up to its loop.
ParseInit ==
    /\ lines \in { StrippedLines(raw) : raw \in RawTexts }
    /\ li = 1 /\ sha1 = None /\ title = None /\ change_id = None
    /\ bot = FALSE /\ commits = <<>> /\ ppc = "loop"

\* One iteration of the loop over the lines.
ParseLine ==
    /\ ppc = "loop" /\ li <= Len(lines)
    /\ LET st == parse_line(parse_state, lines[li])
       IN /\ sha1' = st.sha1 /\ title' = st.title /\ change_id' = st.change_id
          /\ bot' = st.bot /\ commits' = st.commits
    /\ li' = li + 1
    /\ UNCHANGED <<lines, ppc>>
    /\ UNCHANGED <<cherryVars, tagVars, syncVars>>

\* After the loop: the last commit is appended and the list returned.
ParseReturn ==
    /\ ppc = "loop" /\ li > Len(lines)
    /\ commits' = IF ~Falsy(sha1) THEN Append(commits, previous(parse_state))
                  ELSE commits
    /\ ppc' = "done"
    /\ UNCHANGED <<lines, li, sha1, title, change_id, bot>>
    /\ UNCHANGED <<cherryVars, tagVars, syncVars>>

(***************************************************************************)
(* os-downstream-tag.py                                                    *)
(***************************************************************************)
\* Bounds: tags present before the first run, commits of the downstream
\* branch, and the largest patch number a run may compute.
MaxInitTags == 2
MaxHead == 2
MaxPatch == 12

\* The --prefix argument.
downstream_prefix == <<"s", "/">>

\* The upstream tags `git describe` can answer, before and after the
\* downstream branch merges a newer upstream release.
UpstreamTags == << <<"7", ".", "0">>, <<"7", ".", "0", ".", "1">> >>

\* Tags the repository may hold before the first run.
TagPool ==
    { <<"s", "/", "7", ".", "0", ".", "1">>, <<"s", "/", "7", ".", "0", ".", "2">>, <<"s", "/", "7", ".", "0", ".", "9">>, <<"s", "/", "7", ".", "0", ".", "1", "0">>, <<"s", "/", "7", ".", "0", ".", "0", "1">>, <<"s", "/", "7", ".", "0", ".", "x">>, <<"s", "/", "7", ".", "0", ".", "1", ".", "1">> }

DigitChars == <<"0", "1", "2", "3", "4", "5", "6", "7", "8", "9">>

IsDigit(c) == \E i \in 1..Len(DigitChars) : DigitChars[i] = c

DigitValue(c) == (CHOOSE i \in 1..Len(DigitChars) : DigitChars[i] = c) - 1

RECURSIVE ParseIntFrom(_, _, _)
ParseIntFrom(s, i, acc) ==
    IF i > Len(s) THEN acc ELSE ParseIntFrom(s, i + 1, acc * 10 + DigitValue(s[i]))

\* int(s, base=10) of a string of digits.
ParseInt(s) == ParseIntFrom(s, 1, 0)

RECURSIVE Decimal(_)
\* "{}".format(n) of a natural number.
Decimal(n) ==
    IF n < 10 THEN <<DigitChars[n + 1]>>
    ELSE Append(Decimal(n \div 10), DigitChars[(n % 10) + 1])

\* s.split(".")[-1]: what follows the last "." (all of s without one).
LastDotPart(s) ==
    LET dots == { i \in 1..Len(s) : s[i] = "." }
    IN IF dots = {} THEN s
       ELSE DropFirst(s, CHOOSE i \in dots : \A j \in dots : j <= i)

\* The characters of the model's tags, in code point order.
CharOrder == <<".", "/", "0", "1", "2", "3", "4", "5", "6", "7", "8", "9", "s", "x">>

Ord(c) == CHOOSE i \in 1..Len(CharOrder) : CharOrder[i] = c

RECURSIVE LexLess(_, _)
LexLess(a, b) ==
    IF b = <<>> THEN FALSE
    ELSE IF a = <<>> THEN TRUE
    ELSE IF a[1] = b[1] THEN LexLess(Tail(a), Tail(b))
    ELSE Ord(a[1]) < Ord(b[1])

RECURSIVE SortedNames(_)
\* The names in the order `git tag -l` prints them (by name).
SortedNames(S) ==
    IF S = {} THEN <<>>
    ELSE LET m == CHOOSE x \in S : \A y \in S \ {x} : LexLess(x, y)
         IN <<m>> \o SortedNames(S \ {m})

\* git tag -l "<prefix>.*" on the local repository.
tag_list(tags, prefix) ==
    SortedNames({ n \in DOMAIN tags : StartsWith(n, Append(prefix, ".")) })

\* re.compile("^" + re.escape(prefix) + r"\.[\d]+$").match(t)
pattern_match(prefix, tg) ==
    /\ StartsWith(tg, Append(prefix, "."))
    /\ Len(tg) > Len(prefix) + 1
    /\ \A i \in (Len(prefix) + 2)..Len(tg) : IsDigit(tg[i])

\* tag_patch_key: int(tag.split(".")[-1], base=10).
tag_patch_key(tg) == ParseInt(LastDotPart(tg))

\* A mutant of first_of_sorted: sorted without reverse=True.
first_of_sorted_ascending(listing) ==
    LET best == { i \in 1..Len(listing) :
                    \A j \in 1..Len(listing) :
                        tag_patch_key(listing[i]) <= tag_patch_key(listing[j]) }
    IN listing[CHOOSE i \in best : \A j \in best : i <= j]

\* sorted(tags, key=tag_patch_key, reverse=True)[0]: the sort is stable, so
\* of the tags with the largest key it is the first of the listing.
first_of_sorted(listing) ==
    LET best == { i \in 1..Len(listing) :
                    \A j \in 1..Len(listing) :
                        tag_patch_key(listing[j]) <= tag_patch_key(listing[i]) }
    IN listing[CHOOSE i \in best : \A j \in best : i <= j]

\* most_recent_downstream_tag: None without a well-formed tag.
most_recent_downstream_tag(tags, prefix_, upstream_tag_) ==
    LET prefix == prefix_ \o upstream_tag_
        listing == SelectSeq(tag_list(tags, prefix),
                             LAMBDA tg : pattern_match(prefix, tg))
    IN IF listing = <<>> THEN None ELSE first_of_sorted(listing)

\* A mutant of already_tagged: the run never returns early.
never_already_tagged(tags, downstream_tag, ref) == FALSE

\* rev_parse(downstream_tag) == downstream_ref
already_tagged(tags, downstream_tag, ref) == tags[downstream_tag] = ref

\* Lines 137-157 of main: what the run decides from the local tags and the
\* downstream head.
tag_decision(tags, ref, upstream_tag_) ==
    LET downstream_tag == most_recent_downstream_tag(tags, downstream_prefix, upstream_tag_)
        new_patch == IF downstream_tag # None
                     THEN ParseInt(LastDotPart(downstream_tag)) + 1
                     ELSE 1
        tg == downstream_prefix \o upstream_tag_ \o <<".">> \o Decimal(new_patch)
    IN IF downstream_tag # None /\ already_tagged(tags, downstream_tag, ref)
       THEN [outcome |-> "already", new_tag |-> None, new_patch |-> 0]
       ELSE IF tg \in DOMAIN tags
       THEN [outcome |-> "exists", new_tag |-> tg, new_patch |-> new_patch]
       ELSE [outcome |-> "add", new_tag |-> tg, new_patch |-> new_patch]

TagIdle ==
    /\ localTags = <<>> /\ remoteTags = {} /\ downstreamHead = 0
    /\ upstream_tag = None /\ new_tag = None /\ tpc = "off"
    /\ lastRun = "none" /\ created = 0

\* Both repositories hold the same tags before the first run.
TagInit ==
    /\ \E D \in SUBSET TagPool :
         /\ Cardinality(D) <= MaxInitTags
         /\ localTags \in [D -> 0..1]
         /\ remoteTags = D
    /\ downstreamHead = 1
    /\ upstream_tag = UpstreamTags[1]
    /\ new_tag = None /\ tpc = "idle" /\ lastRun = "none" /\ created = 0

\* A run up to the decision (lines 104-157): fetch, resolve the refs, find
\* the upstream and downstream tags, then return, exit 1 or go on to tag.
TagMain ==
    /\ tpc = "idle"
    /\ LET d == tag_decision(localTags, downstreamHead, upstream_tag)
       IN /\ d.new_patch <= MaxPatch
          /\ IF d.outcome = "add"
             THEN tpc' = "add" /\ new_tag' = d.new_tag /\ lastRun' = "running"
             ELSE tpc' = "idle" /\ new_tag' = None /\ lastRun' = d.outcome
    /\ UNCHANGED <<localTags, remoteTags, downstreamHead, upstream_tag, created>>
    /\ UNCHANGED <<cherryVars, parseVars, syncVars>>

\* A run whose fetch (or another query) fails: the exception ends it.
TagMainFails ==
    /\ tpc = "idle"
    /\ lastRun' = "error"
    /\ UNCHANGED <<localTags, remoteTags, downstreamHead, upstream_tag, new_tag,
                   tpc, created>>
    /\ UNCHANGED <<cherryVars, parseVars, syncVars>>

\* add_tag(new_tag, downstream_ref)
TagAdd ==
    /\ tpc = "add"
    /\ localTags' = [n \in DOMAIN localTags \cup {new_tag} |->
                        IF n = new_tag THEN downstreamHead ELSE localTags[n]]
    /\ created' = created + 1
    /\ tpc' = "push"
    /\ UNCHANGED <<remoteTags, downstreamHead, upstream_tag, new_tag, lastRun>>
    /\ UNCHANGED <<cherryVars, parseVars, syncVars>>

\* push_tag(downstream_remote, new_tag) succeeds, and main returns.
TagPush ==
    /\ tpc = "push"
    /\ remoteTags' = remoteTags \cup {new_tag}
    /\ tpc' = "idle" /\ lastRun' = "pushed"
    /\ UNCHANGED <<localTags, downstreamHead, upstream_tag, new_tag, created>>
    /\ UNCHANGED <<cherryVars, parseVars, syncVars>>

\* push_tag raises CalledProcessError: the run ends with the tag local only.
TagPushFails ==
    /\ tpc = "push"
    /\ tpc' = "idle" /\ lastRun' = "push_failed"
    /\ UNCHANGED <<localTags, remoteTags, downstreamHead, upstream_tag, new_tag,
                   created>>
    /\ UNCHANGED <<cherryVars, parseVars, syncVars>>

\* Between runs: a new commit reaches the downstream branch.
DownstreamCommit ==
    /\ tpc = "idle" /\ downstreamHead < MaxHead
    /\ downstreamHead' = downstreamHead + 1
    /\ created' = 0 /\ lastRun' = "none"
    /\ UNCHANGED <<localTags, remoteTags, upstream_tag, new_tag, tpc>>
    /\ UNCHANGED <<cherryVars, parseVars, syncVars>>

\* Between runs: the downstream branch merges a newer upstream release.
UpstreamRelease ==
    /\ tpc = "idle" /\ downstreamHead < MaxHead
    /\ upstream_tag = UpstreamTags[1]
    /\ upstream_tag' = UpstreamTags[2]
    /\ downstreamHead' = downstreamHead + 1
    /\ created' = 0 /\ lastRun' = "none"
    /\ UNCHANGED <<localTags, remoteTags, new_tag, tpc>>
    /\ UNCHANGED <<cherryVars, parseVars, syncVars>>

(***************************************************************************)
(* os-upstream-sync.py                                                     *)
(***************************************************************************)
\* Bound: the commits of the upstream release branch, oldest first 0..MaxUp.
MaxUp == 2

\* The upstream release branch is a chain of commits 0, 1, 2, ...; a head of
\* the downstream branch is named by the newest upstream commit its history
\* contains.  Unset is the value of a local variable not yet assigned.
Unset == -1

Min(a, b) == IF a <= b THEN a ELSE b

\* git merge-base of an upstream commit and a downstream head.
merge_base(upstream, downstream) == Min(upstream, downstream)

\* The states a run ends in, named by its last message or event.
Ended == {"idle", "synced", "aborted_uncommitted", "aborted_clean", "failed", "pushed"}

\* A mutant of after_check: with --continue the run goes on to commit
\* whatever check_uncommitted found.
after_check_always_commits(cont_, raised) ==
    IF ~cont_
    THEN IF raised THEN "aborted_uncommitted" ELSE "fetch_upstream"
    ELSE "commit"

\* Lines 120-145: where the run goes after check_uncommitted, which raises
\* when git diff-index finds uncommitted changes.
after_check(cont_, raised) ==
    IF ~cont_
    THEN IF raised THEN "aborted_uncommitted" ELSE "fetch_upstream"
    ELSE IF raised THEN "commit" ELSE "aborted_clean"

SyncIdle ==
    /\ upTracking = 0 /\ upRemote = 0 /\ downTracking = 0 /\ downRemote = 0
    /\ dirty = FALSE /\ cont = FALSE /\ uncommitted = FALSE
    /\ upstream_ref = Unset /\ downstream_ref = Unset /\ merged_ref = Unset
    /\ spc = "off" /\ ops = <<>> /\ exitCode = Unset

\* The remote-tracking refs are at most as new as the remotes' branches, and
\* the downstream branch contains at most what upstream has published.
SyncInit ==
    /\ upRemote \in 0..MaxUp
    /\ upTracking \in 0..upRemote
    /\ downRemote \in 0..upRemote
    /\ downTracking \in 0..downRemote
    /\ dirty \in BOOLEAN
    /\ cont = FALSE /\ uncommitted = FALSE
    /\ upstream_ref = Unset /\ downstream_ref = Unset /\ merged_ref = Unset
    /\ spc = "idle" /\ ops = <<>> /\ exitCode = Unset

SyncEnd(state, code) == spc' = state /\ exitCode' = code

\* Lines 100-118: the arguments, and rev_parse of the two remote-tracking
\* refs as they are before any fetch.
SyncStart ==
    /\ spc \in Ended
    /\ cont' \in BOOLEAN
    /\ upstream_ref' = upTracking
    /\ downstream_ref' = downTracking
    /\ uncommitted' = FALSE /\ merged_ref' = Unset /\ ops' = <<>>
    /\ spc' = "check" /\ exitCode' = Unset
    /\ UNCHANGED <<upTracking, upRemote, downTracking, downRemote, dirty>>
    /\ UNCHANGED <<cherryVars, parseVars, tagVars>>

\* check_uncommitted in either branch, and the exits that follow it.
SyncCheck ==
    /\ spc = "check"
    /\ uncommitted' = dirty
    /\ LET next == after_check(cont, dirty)
       IN IF next \in Ended THEN SyncEnd(next, 1)
          ELSE spc' = next /\ UNCHANGED exitCode
    /\ UNCHANGED <<upTracking, upRemote, downTracking, downRemote, dirty, cont,
                   upstream_ref, downstream_ref, merged_ref, ops>>
    /\ UNCHANGED <<cherryVars, parseVars, tagVars>>

\* fetch(upstream_remote)
SyncFetchUpstream ==
    /\ spc = "fetch_upstream"
    /\ \E ok \in BOOLEAN :
         IF ok THEN /\ upTracking' = upRemote
                    /\ spc' = "fetch_downstream" /\ UNCHANGED exitCode
         ELSE SyncEnd("failed", 1) /\ UNCHANGED upTracking
    /\ UNCHANGED <<upRemote, downTracking, downRemote, dirty, cont, uncommitted,
                   upstream_ref, downstream_ref, merged_ref, ops>>
    /\ UNCHANGED <<cherryVars, parseVars, tagVars>>

\* fetch(downstream_remote)
SyncFetchDownstream ==
    /\ spc = "fetch_downstream"
    /\ \E ok \in BOOLEAN :
         IF ok THEN /\ downTracking' = downRemote
                    /\ spc' = "merge_base" /\ UNCHANGED exitCode
         ELSE SyncEnd("failed", 1) /\ UNCHANGED downTracking
    /\ UNCHANGED <<upTracking, upRemote, downRemote, dirty, cont, uncommitted,
                   upstream_ref, downstream_ref, merged_ref, ops>>
    /\ UNCHANGED <<cherryVars, parseVars, tagVars>>

\* Lines 130-133: the merge base of the two refs resolved at the start.
SyncMergeBase ==
    /\ spc = "merge_base"
    /\ IF merge_base(upstream_ref, downstream_ref) = upstream_ref
       THEN SyncEnd("synced", 0)
       ELSE spc' = "create_branch" /\ UNCHANGED exitCode
    /\ UNCHANGED <<upTracking, upRemote, downTracking, downRemote, dirty, cont,
                   uncommitted, upstream_ref, downstream_ref, merged_ref, ops>>
    /\ UNCHANGED <<cherryVars, parseVars, tagVars>>

\* A mutating git call that leaves the repository state of the model as it
\* is: it is logged and the run goes on, or check_call raises and the run
\* ends.
SyncCall(at, name, next) ==
    /\ spc = at
    /\ \E ok \in BOOLEAN :
         IF ok THEN /\ ops' = Append(ops, name)
                    /\ IF next \in Ended THEN SyncEnd(next, 0)
                       ELSE spc' = next /\ UNCHANGED exitCode
         ELSE SyncEnd("failed", 1) /\ UNCHANGED ops

\* create_branch(branch, downstream_ref, force)
SyncCreateBranch ==
    /\ SyncCall("create_branch", "create_branch", "checkout")
    /\ UNCHANGED <<upTracking, upRemote, downTracking, downRemote, dirty, cont,
                   uncommitted, upstream_ref, downstream_ref, merged_ref>>
    /\ UNCHANGED <<cherryVars, parseVars, tagVars>>

\* checkout(branch)
SyncCheckout ==
    /\ SyncCall("checkout", "checkout", "merge")
    /\ UNCHANGED <<upTracking, upRemote, downTracking, downRemote, dirty, cont,
                   uncommitted, upstream_ref, downstream_ref, merged_ref>>
    /\ UNCHANGED <<cherryVars, parseVars, tagVars>>

\* merge(upstream_ref, message): a failed merge leaves its conflicts in the
\* working tree.
SyncMerge ==
    /\ SyncCall("merge", "merge", "push")
    /\ IF spc' = "push"
       THEN merged_ref' = upstream_ref /\ UNCHANGED dirty
       ELSE dirty' = TRUE /\ UNCHANGED merged_ref
    /\ UNCHANGED <<upTracking, upRemote, downTracking, downRemote, cont,
                   uncommitted, upstream_ref, downstream_ref>>
    /\ UNCHANGED <<cherryVars, parseVars, tagVars>>

\* commit(message)
SyncCommit ==
    /\ SyncCall("commit", "commit", "push")
    /\ dirty' = IF spc' = "push" THEN FALSE ELSE dirty
    /\ UNCHANGED <<upTracking, upRemote, downTracking, downRemote, cont,
                   uncommitted, upstream_ref, downstream_ref, merged_ref>>
    /\ UNCHANGED <<cherryVars, parseVars, tagVars>>

\* push(downstream_remote, branch): the merge branch, not the downstream
\* release branch.
SyncPush ==
    /\ SyncCall("push", "push", "pushed")
    /\ UNCHANGED <<upTracking, upRemote, downTracking, downRemote, dirty, cont,
                   uncommitted, upstream_ref, downstream_ref, merged_ref>>
    /\ UNCHANGED <<cherryVars, parseVars, tagVars>>

\* Between runs: upstream publishes a commit on the release branch.
UpstreamPublishes ==
    /\ spc \in Ended /\ upRemote < MaxUp
    /\ upRemote' = upRemote + 1
    /\ UNCHANGED <<upTracking, downTracking, downRemote, dirty, cont, uncommitted,
                   upstream_ref, downstream_ref, merged_ref, spc, ops, exitCode>>
    /\ UNCHANGED <<cherryVars, parseVars, tagVars>>

\* Between runs: a merge of upstream lands on the downstream release branch.
DownstreamMerges ==
    /\ spc \in Ended /\ downRemote < upRemote
    /\ downRemote' \in (downRemote + 1)..upRemote
    /\ UNCHANGED <<upTracking, upRemote, downTracking, dirty, cont, uncommitted,
                   upstream_ref, downstream_ref, merged_ref, spc, ops, exitCode>>
    /\ UNCHANGED <<cherryVars, parseVars, tagVars>>

\* Between runs: the user edits the working tree, or cleans it.
UserEdits ==
    /\ spc \in Ended
    /\ dirty' = ~dirty
    /\ UNCHANGED <<upTracking, upRemote, downTracking, downRemote, cont, uncommitted,
                   upstream_ref, downstream_ref, merged_ref, spc, ops, exitCode>>
    /\ UNCHANGED <<cherryVars, parseVars, tagVars>>

(***************************************************************************)
(* Specifications                                                          *)
(***************************************************************************)
InitCherry == CherryInit /\ ParseIdle /\ TagIdle /\ SyncIdle

NextCherry == CherryLoop \/ CherryPrint

SpecCherry == InitCherry /\ [][NextCherry]_vars

InitParse == ParseInit /\ CherryIdle /\ TagIdle /\ SyncIdle

NextParse == ParseLine \/ ParseReturn

SpecParse == InitParse /\ [][NextParse]_vars

InitTag == TagInit /\ CherryIdle /\ ParseIdle /\ SyncIdle

NextTag ==
    \/ TagMain \/ TagMainFails \/ TagAdd \/ TagPush \/ TagPushFails
    \/ DownstreamCommit \/ UpstreamRelease

SpecTag == InitTag /\ [][NextTag]_vars

InitSync == SyncInit /\ CherryIdle /\ ParseIdle /\ TagIdle

NextSync ==
    \/ SyncStart \/ SyncCheck \/ SyncFetchUpstream \/ SyncFetchDownstream
    \/ SyncMergeBase \/ SyncCreateBranch \/ SyncCheckout \/ SyncMerge
    \/ SyncCommit \/ SyncPush
    \/ UpstreamPublishes \/ DownstreamMerges \/ UserEdits

SpecSync == InitSync /\ [][NextSync]_vars

(***************************************************************************)
(* Properties of cherry_pop                                                *)
(***************************************************************************)
\* Some commit of the list carries the commit's change ID.
CarriedBy(log, c) == \E k \in 1..Len(log) : log[k].change_id = c.change_id

OnNewBranch(c) == CarriedBy(new_branch_commits, c)

LaterBranchesWith(c) ==
    { b \in 1..Len(later_branch_commits) : CarriedBy(later_branch_commits[b].commits, c) }

\* The number of the first rule that applies to a candidate.
Rule(c) ==
    IF c.bot THEN 1
    ELSE IF c.change_id = None THEN 2
    ELSE IF OnNewBranch(c) THEN 3
    ELSE IF LaterBranchesWith(c) # {} THEN 4
    ELSE 5

RuleMessage ==
    << "SKIP: created by stackhpc-ci bot", "KEEP: No change ID", "SKIP: present",
       "CHOICE: present on multiple branches", "KEEP: Use original commit" >>

\* The candidates among the first n that are not skipped.
Kept(n) == { i \in 1..n : Rule(candidates[i]) \notin {1, 3} }

\* The place in the list of cherries of the cherry of kept candidate i.
Place(i) == Cardinality(Kept(i))

\* The first commit with the candidate's change ID on the earliest later
\* branch that has one.
EarliestLater(c) ==
    LET b == CHOOSE x \in LaterBranchesWith(c) : \A y \in LaterBranchesWith(c) : x <= y
        log == later_branch_commits[b].commits
        hits == { k \in 1..Len(log) : log[k].change_id = c.change_id }
    IN log[CHOOSE k \in hits : \A j \in hits : k <= j]

\* C1: every candidate gets the outcome of the first applicable rule (bot ->
\* skipped; no change ID -> itself; on the new branch -> skipped; on a later
\* branch -> a commit of a later branch; otherwise itself), and the list of
\* cherries holds exactly one cherry per candidate that was not skipped.
C1_FirstApplicableRule ==
    cpc \in {"loop", "done"} =>
        /\ Len(report) = cidx - 1
        /\ \A i \in 1..(cidx - 1) : report[i].msg = RuleMessage[Rule(candidates[i])]
        /\ Len(cherries) = Cardinality(Kept(cidx - 1))
        /\ \A i \in Kept(cidx - 1) :
             IF Rule(candidates[i]) = 4
             THEN \E b \in 1..Len(later_branch_commits) :
                    \E k \in 1..Len(later_branch_commits[b].commits) :
                        cherries[Place(i)] = later_branch_commits[b].commits[k]
             ELSE cherries[Place(i)] = candidates[i]

\* A run in which one candidate was skipped as present on the new branch and
\* another was replaced by a commit of a later branch.
C1_Witness ==
    /\ cpc = "done"
    /\ \E i, j \in 1..Len(candidates) :
         Rule(candidates[i]) = 3 /\ Rule(candidates[j]) = 4

\* C2: no proposed cherry that carries a change ID shares it with a commit of
\* new_branch_commits.
C2_NothingAlreadyMerged ==
    \A k \in 1..Len(cherries) :
        cherries[k].change_id # None => ~OnNewBranch(cherries[k])

\* A finished run that proposed a commit with a change ID while another
\* candidate's change ID was on the new branch.
C2_Witness ==
    /\ cpc = "done"
    /\ \E k \in 1..Len(cherries) : cherries[k].change_id # None
    /\ \E i \in 1..Len(candidates) :
         ~candidates[i].bot /\ candidates[i].change_id # None
         /\ OnNewBranch(candidates[i])

\* C3: for a non-bot candidate with a change ID that is not on the new branch
\* but on a later branch, the cherry is the first commit with that change ID
\* on the earliest such branch, and the candidate itself is not proposed.
C3_EarliestLaterBranchWins ==
    cpc \in {"loop", "done"} =>
        \A i \in 1..(cidx - 1) :
            Rule(candidates[i]) = 4 =>
                /\ cherries[Place(i)] = EarliestLater(candidates[i])
                /\ \A k \in 1..Len(cherries) : cherries[k].sha1 # candidates[i].sha1

\* A candidate whose change is on both later branches, as different commits.
C3_Witness ==
    /\ cpc = "done"
    /\ \E i \in 1..Len(candidates) :
         /\ Rule(candidates[i]) = 4
         /\ Len(report[i].options) = 2

\* The cherry the rules select for kept candidate i.
Selected(i) ==
    IF Rule(candidates[i]) = 4 THEN EarliestLater(candidates[i]) ELSE candidates[i]

\* C10: the printed list is the selected cherries in the reverse of the order
\* in which their candidates were processed, none dropped or repeated.
C10_ReverseOrder ==
    cpc = "done" =>
        LET n == Len(candidates)
            m == Cardinality(Kept(n))
            nth(k) == CHOOSE i \in Kept(n) : Place(i) = k
        IN /\ Len(printed) = m
           /\ \A k \in 1..m :
                printed[k] = [sha1 |-> Selected(nth(m + 1 - k)).sha1,
                              title |-> Selected(nth(m + 1 - k)).title]

\* Two different cherries were printed.
C10_Witness ==
    cpc = "done" /\ Len(printed) = 2 /\ printed[1] # printed[2]

(***************************************************************************)
(* Properties of list_commits                                              *)
(***************************************************************************)
CommitAt == { i \in 1..Len(lines) : StartsWith(lines[i], COMMIT_ID) }

\* The lines of the commit that starts at line i.
BodyOf(i) ==
    { j \in (i + 1)..Len(lines) : \A c \in CommitAt : c <= i \/ c > j }

First(S) == CHOOSE x \in S : \A y \in S : x <= y

Last(S) == CHOOSE x \in S : \A y \in S : y <= x

\* The message lines of the commit that are not Change-Id lines.
MessageLines(i) ==
    { j \in BodyOf(i) : StartsWith(lines[j], TITLE) /\ ~StartsWith(lines[j], CHANGE_ID) }

NonEmptyMessageLines(i) == { j \in MessageLines(i) : Len(lines[j]) > Len(TITLE) }

\* The title as the claim states it.
ClaimedTitle(i) ==
    IF NonEmptyMessageLines(i) = {} THEN None
    ELSE DropFirst(lines[First(NonEmptyMessageLines(i))], Len(TITLE))

\* The title with the blank message lines taken into account.
AmendedTitle(i) ==
    IF NonEmptyMessageLines(i) # {}
    THEN DropFirst(lines[First(NonEmptyMessageLines(i))], Len(TITLE))
    ELSE IF MessageLines(i) # {} THEN <<>> ELSE None

ClaimedChangeId(i) ==
    LET ids == { j \in BodyOf(i) : StartsWith(lines[j], CHANGE_ID) }
    IN IF ids = {} THEN None
       ELSE <<"I">> \o DropFirst(lines[Last(ids)], Len(CHANGE_ID))

ClaimedBot(i) ==
    \E j \in BodyOf(i) :
        StartsWith(lines[j], AUTHOR) /\ Split(lines[j])[2] = STACKHPC_CI

\* The record of the k-th commit line, with the title given by Title(_).
ClaimedRecords(Title(_)) ==
    [k \in 1..Cardinality(CommitAt) |->
        LET i == CHOOSE c \in CommitAt : Cardinality({ d \in CommitAt : d <= c }) = k
        IN [sha1 |-> Split(lines[i])[2], title |-> Title(i),
            change_id |-> ClaimedChangeId(i), bot |-> ClaimedBot(i)]]

\* C8 as stated: one record per commit line, in order, with the sha1, the
\* first non-empty message line as title (None without one), the last
\* Change-Id (None without one) and the bot flag of that commit alone.
C8_AsStated == ppc = "done" => commits = ClaimedRecords(ClaimedTitle)

\* C8 amended: as stated, but the title of a commit that has only blank
\* message lines is the empty string; it is None only when the commit has no
\* 4-space-indented line other than Change-Id lines.
C8_Records == ppc = "done" => commits = ClaimedRecords(AmendedTitle)

\* Two commits: the first with a Change-Id and only a blank message line, the
\* second with neither.
C8_Witness ==
    /\ ppc = "done" /\ Len(commits) = 2
    /\ commits[1].change_id # None /\ commits[1].title = <<>>
    /\ commits[2].change_id = None /\ commits[2].title = None

(***************************************************************************)
(* Properties of the downstream tag tool                                   *)
(***************************************************************************)
TagPrefix == downstream_prefix \o upstream_tag

RECURSIVE Zeros(_)
Zeros(n) == IF n = 0 THEN <<>> ELSE <<"0">> \o Zeros(n - 1)

\* The tag is <prefix><upstream_tag>.<digits> and its digits denote n.
HasPatch(tg, n) ==
    \E z \in 0..2 : tg = TagPrefix \o <<".">> \o Zeros(z) \o Decimal(n)

\* The patch numbers of the well-formed tags of the current upstream tag.
PatchNumbers ==
    LET named == { tg \in DOMAIN localTags : StartsWith(tg, TagPrefix) }
    IN { n \in 0..(MaxPatch + 1) : \E tg \in named : HasPatch(tg, n) }

Highest == CHOOSE n \in PatchNumbers : \A k \in PatchNumbers : k <= n

\* The well-formed tags with the highest patch number.
HighestTags ==
    LET numbers == PatchNumbers
    IN IF numbers = {} THEN {}
       ELSE LET top == CHOOSE n \in numbers : \A k \in numbers : k <= n
            IN { tg \in DOMAIN localTags : HasPatch(tg, top) }

\* The highest-numbered tag; of several that denote the same number (.01 and
\* .1) the one git lists first.
HighestTag == CHOOSE tg \in HighestTags : \A o \in HighestTags \ {tg} : LexLess(tg, o)

\* C4: the new tag is <prefix><upstream_tag>.<N> with N = 1 without a
\* well-formed tag and otherwise one more than the largest patch number, so N
\* exceeds every existing patch number and the new tag is not an existing one.
C4_NextPatchNumber ==
    /\ lastRun # "exists"
    /\ tpc = "add" =>
        LET N == IF PatchNumbers = {} THEN 1 ELSE Highest + 1
        IN /\ new_tag = TagPrefix \o <<".">> \o Decimal(N)
           /\ \A n \in PatchNumbers : N > n
           /\ new_tag \notin DOMAIN localTags

\* Tags .9 and .10 exist and the run is about to add .11.
C4_Witness ==
    /\ tpc = "add"
    /\ <<"s", "/", "7", ".", "0", ".", "9">> \in DOMAIN localTags
    /\ <<"s", "/", "7", ".", "0", ".", "1", "0">> \in DOMAIN localTags
    /\ new_tag = <<"s", "/", "7", ".", "0", ".", "1", "1">>

\* C5: whenever a run ends successfully with the downstream head carrying the
\* newest downstream tag, that tag is on the downstream remote.
C5_TaggedHeadIsPushed ==
    (tpc = "idle" /\ lastRun \in {"already", "pushed"}) =>
        \A tg \in HighestTags :
            localTags[tg] = downstreamHead => tg \in remoteTags

\* C6: a run that finds the highest-numbered tag on the downstream head adds
\* and pushes nothing, and the runs against one downstream head and one
\* upstream tag create at most one tag between them.
C6_Idempotent ==
    /\ [][(tpc = "idle" /\ (localTags' # localTags \/ remoteTags' # remoteTags \/ tpc' # "idle"))
            => (HighestTags = {} \/ localTags[HighestTag] # downstreamHead)]_vars
    /\ [](created <= 1)

\* A run created a tag and a later run against the same head found it.
C6_Witness == tpc = "idle" /\ lastRun = "already" /\ created = 1

(***************************************************************************)
(* Properties of the sync tool                                             *)
(***************************************************************************)
Pushed == \E k \in 1..Len(ops) : ops[k] = "push"

\* C7: "Latest upstream already synced" is reported only when the upstream
\* head, as fetched by the run, is in the history of the downstream branch,
\* and a run that merges merges that fetched head.
C7_SyncedMeansFetchedHeadMerged ==
    /\ spc = "synced" => upTracking <= downTracking
    /\ (~cont /\ merged_ref # Unset) => merged_ref = upTracking

\* C9: a push happens only at the end of a run in which every earlier step
\* succeeded, in the order of the branch taken; the two precondition failures
\* exit nonzero before any mutating call, and no other run pushes.
C9_PushOnlyAfterSuccess ==
    /\ Pushed =>
        /\ spc = "pushed" /\ exitCode = 0
        /\ IF cont
           THEN uncommitted /\ ops = <<"commit", "push">>
           ELSE /\ ~uncommitted
                /\ merge_base(upstream_ref, downstream_ref) # upstream_ref
                /\ ops = <<"create_branch", "checkout", "merge", "push">>
    /\ spc = "aborted_uncommitted" => (~cont /\ uncommitted /\ ops = <<>> /\ exitCode = 1)
    /\ spc = "aborted_clean" => (cont /\ ~uncommitted /\ ops = <<>> /\ exitCode = 1)
    /\ spc = "synced" => (ops = <<>> /\ exitCode = 0)
    /\ spc = "failed" => (~Pushed /\ exitCode = 1)
    /\ spc = "check" => ops = <<>>

\* A run without --continue that merged and pushed.
C9_Witness ==
    /\ spc = "pushed" /\ ~cont
    /\ ops = <<"create_branch", "checkout", "merge", "push">>

====
